---- MODULE Spec2Model ----
(***************************************************************************)
(* Storage queries of subxt (src/src/storage.rs): key derivation, typed    *)
(* fetch with default fallback, and the paginated key iterator KeyIter.    *)
(*                                                                         *)
(* Four specifications share the module's variables:                       *)
(*   Spec       KeyIter::next against a node whose map may change;         *)
(*   SpecFault  KeyIter::next on an unchanging map, with transport         *)
(*              failures and cancellation of a pending call;               *)
(*   SpecFetch  fetch_unhashed / fetch / fetch_or_default;                 *)
(*   SpecKey    StorageKeyPrefix::new, StorageEntryKey::final_key, hash.   *)
(***************************************************************************)
EXTENDS Integers, Sequences, FiniteSets, TLC

(***************************************************************************)
(* Bounds of the model.                                                    *)
(***************************************************************************)
\* wire keys of the iterated map: 1..MaxKeys, in lexicographic order
MaxKeys == 3
\* largest page size (KeyIter.count) tried
MaxCount == 3
\* transport failures and cancellations before the first "no more items"
MaxFaults == 1
\* node-side insertions and deletions
MaxMut == 2

(***************************************************************************)
(* Option<T>: None is the empty sequence, Some(x) the one-element one.     *)
(***************************************************************************)
None == <<>>
Some(x) == <<x>>

Min(a, b) == IF a < b THEN a ELSE b

(***************************************************************************)
(* The value type F::Value and its codec.  The entry's value type is a     *)
(* fixed-width little-endian unsigned integer (as u128 for TotalIssuance), *)
(* ValWidth bytes wide.  Decode reads ValWidth bytes from the front of the *)
(* input and fails when fewer are left; bytes after them are not read.     *)
(***************************************************************************)
ValWidth == 2

RECURSIVE EncodeLE(_, _)
EncodeLE(n, w) ==
    IF w = 0 THEN <<>> ELSE <<n % 256>> \o EncodeLE(n \div 256, w - 1)

Encode(n) == EncodeLE(n, ValWidth)

RECURSIVE DecodeLE(_)
DecodeLE(bs) ==
    IF bs = <<>> THEN 0 ELSE Head(bs) + 256 * DecodeLE(Tail(bs))

Decode(bs) ==
    IF Len(bs) < ValWidth
    THEN [ok |-> FALSE, val |-> 0]
    ELSE [ok |-> TRUE, val |-> DecodeLE(SubSeq(bs, 1, ValWidth))]

(***************************************************************************)
(* State.                                                                  *)
(***************************************************************************)
VARIABLES
    \* KeyIter
    count,              \* KeyIter.count, the page size
    start_key,          \* KeyIter.start_key : Option<StorageKey>
    buffer,             \* KeyIter.buffer : Vec<(StorageKey, StorageData)>
    pc,                 \* position of the caller of next: idle, listing
                        \* (awaiting fetch_keys), reading (awaiting
                        \* query_storage_at), panicked
    keys,               \* next's local `keys` while the value read is pending
    req_start,          \* start_key argument of the pending fetch_keys
    ret,                \* what the last call of next returned
    debug_assertions,   \* whether the build compiles debug_assert_eq!
    iter_hash,          \* KeyIter.hash, the block the iterator reads at
    req_hash,           \* the `hash` argument of the request last issued
    \* the node
    store,              \* the map at the iterator's block: key -> Option<bytes>
    \* history of the iteration, kept up to the first "no more items"
    exhausted,          \* next has returned Ok(None)
    yielded,            \* key -> number of pairs yielded with that key
    order,              \* the keys of the pairs yielded, in the order yielded
    nList,              \* number of fetch_keys requests issued
    lastListLen,        \* number of keys the last answered listing returned
    both,               \* keys listed and found with a value at the read
    dropped,            \* keys listed and found without a value at the read
    changed,            \* the node's map has changed since Init
    faults,             \* kinds of failed or abandoned calls so far
    nFaults,            \* transport failures and cancellations so far
    nMut,               \* node-side changes so far
    reqs,               \* the requests issued so far: method, prefix, hash
    asserted,           \* the two lengths line 278 last compared
    pre_pop,            \* the buffer from which the last pair was popped
    \* the state of the iterator when the running (or last) call began
    call_start_key,
    call_buffer,
    \* the running (or last) call of next
    call_reqs,          \* number of transport requests it has issued
    call_failed         \* one of its requests has failed

iterVars == <<count, start_key, buffer, pc, keys, req_start, ret,
              debug_assertions, iter_hash, req_hash, store, exhausted,
              yielded, order, nList, lastListLen, both, dropped, changed,
              faults, nFaults, nMut, reqs, asserted, pre_pop,
              call_start_key, call_buffer, call_reqs, call_failed>>

\* key derivation (SpecKey): the inputs and what the three functions returned
VARIABLES
    k_pallet,           \* F::PALLET as bytes
    k_item,             \* F::STORAGE as bytes
    k_plan,             \* the StorageEntryKey
    k_prefix,           \* Option: what StorageKeyPrefix::new returned
    k_key,              \* Option: what final_key returned
    k_hash              \* Option: (hasher, bytes, what hash returned)

keyVars == <<k_pallet, k_item, k_plan, k_prefix, k_key, k_hash>>

\* single-entry fetch (SpecFetch)
VARIABLES
    f_pc,               \* idle, or awaiting the answer of Rpc::storage
    f_op,               \* the function called
    f_entry,            \* Option: the entry F given to the call
    f_key,              \* the StorageKey asked for
    f_hash,             \* the hash argument : Option<T::Hash>
    f_ret,              \* what the last call returned
    f_reads,            \* transport reads the running (or last) call issued
    f_meta_used,        \* the running (or last) call has read the metadata
    f_seen,             \* the answer of Rpc::storage to the running (or last)
                        \* call: ok or failed, the bytes, and int = Some(n)
                        \* when the node wrote them as the encoding of n
    f_prev,             \* the call before: its arguments, f_ret and f_seen
    cell,               \* the node's value at NodeKey now : Option<bytes>
    cell_at,            \* the node's value at NodeKey at the block `hash`
    cell_int,           \* Some(n) when cell holds the encoding of n
    meta                \* what the metadata holds for the entry

fetchVars == <<f_pc, f_op, f_entry, f_key, f_hash, f_ret, f_reads,
               f_meta_used, f_seen, f_prev,
               cell, cell_at, cell_int, meta>>

vars == <<iterVars, keyVars, fetchVars>>

(***************************************************************************)
(* Key derivation, storage.rs:79-157.                                      *)
(***************************************************************************)
\* the primitives of sp_core, each with the width of its output in bytes.
\* Their digests are stood in for by a function of the input's bytes, their
\* positions and their number, distinct per primitive.
RECURSIVE WeightedSum(_, _)
WeightedSum(bs, i) ==
    IF bs = <<>> THEN 0 ELSE i * Head(bs) + WeightedSum(Tail(bs), i + 1)

Digest(seed, width, bs) ==
    LET mix == seed + 31 * WeightedSum(bs, 1) + 17 * Len(bs)
    IN  [i \in 1..width |-> (mix + 131 * i) % 256]

twox_64(bs) == Digest(3, 8, bs)
twox_128(bs) == Digest(1, 16, bs)
twox_256(bs) == Digest(2, 32, bs)
blake2_128(bs) == Digest(4, 16, bs)
blake2_256(bs) == Digest(5, 32, bs)

\* StorageHasher
Hashers == {"Identity", "Blake2_128", "Blake2_128Concat", "Blake2_256",
            "Twox128", "Twox256", "Twox64Concat"}

\* as hash, but Blake2_128Concat leaves out the input after its digest
hash_without_preimage(hasher, bytes) ==
    CASE hasher = "Identity" -> bytes
      [] hasher = "Blake2_128" -> blake2_128(bytes)
      [] hasher = "Blake2_128Concat" -> blake2_128(bytes)
      [] hasher = "Blake2_256" -> blake2_256(bytes)
      [] hasher = "Twox128" -> twox_128(bytes)
      [] hasher = "Twox256" -> twox_256(bytes)
      [] hasher = "Twox64Concat" -> twox_64(bytes) \o bytes

\* StorageEntryKey::hash, lines 117-140
hash(hasher, bytes) ==
    CASE hasher = "Identity" -> bytes
      [] hasher = "Blake2_128" -> blake2_128(bytes)
      [] hasher = "Blake2_128Concat" -> blake2_128(bytes) \o bytes
      [] hasher = "Blake2_256" -> blake2_256(bytes)
      [] hasher = "Twox128" -> twox_128(bytes)
      [] hasher = "Twox256" -> twox_256(bytes)
      [] hasher = "Twox64Concat" -> twox_64(bytes) \o bytes

\* StorageKeyPrefix::new, lines 84-88
StorageKeyPrefix_new(pallet, item) == twox_128(pallet) \o twox_128(item)

\* StorageMapKey, lines 144-147
StorageMapKey(value, hasher) == [value |-> value, hasher |-> hasher]

\* StorageEntryKey, lines 97-102: Plain, or Map with its map keys
Plain == [kind |-> "Plain", map_keys |-> <<>>]
Map(map_keys) == [kind |-> "Map", map_keys |-> map_keys]

\* lines 110-112: for map_key in map_keys { bytes.extend(hash(..)) }
RECURSIVE extend_map_keys(_, _)
extend_map_keys(bytes, map_keys) ==
    IF map_keys = <<>> THEN bytes
    ELSE extend_map_keys(
             bytes \o hash(Head(map_keys).hasher, Head(map_keys).value),
             Tail(map_keys))

Reverse(q) == [i \in 1..Len(q) |-> q[Len(q) + 1 - i]]

\* as final_key, but the map keys are hashed last to first
final_key_reversed(pallet, item, plan) ==
    LET prefix == StorageKeyPrefix_new(pallet, item)
    IN  IF plan.kind = "Map"
        THEN extend_map_keys(prefix, Reverse(plan.map_keys))
        ELSE prefix

\* StorageEntryKey::final_key, lines 106-115
final_key(pallet, item, plan) ==
    LET prefix == StorageKeyPrefix_new(pallet, item)
    IN  IF plan.kind = "Map"
        THEN extend_map_keys(prefix, plan.map_keys)
        ELSE prefix

\* the names and encoded map keys tried
\* "Balances", "System"
Pallets == {<<66, 97, 108, 97, 110, 99, 101, 115>>,
            <<83, 121, 115, 116, 101, 109>>}
\* "TotalIssuance", "Account"
Items == {<<84, 111, 116, 97, 108, 73, 115, 115, 117, 97, 110, 99, 101>>,
          <<65, 99, 99, 111, 117, 110, 116>>}
\* encoded map-key values: the empty encoding and a two-byte one
SegBytes == {<<>>, <<212, 53>>}
\* most map keys of one StorageEntryKey
MaxSegs == 2

MapKeys == {StorageMapKey(v, h) : v \in SegBytes, h \in Hashers}

RECURSIVE SeqsUpTo(_, _)
SeqsUpTo(S, n) ==
    IF n = 0 THEN {<<>>}
    ELSE LET shorter == SeqsUpTo(S, n - 1)
         IN  shorter \cup {Append(q, x) : q \in shorter, x \in S}

Plans == {Plain} \cup {Map(ks) : ks \in SeqsUpTo(MapKeys, MaxSegs)}

\* a caller builds the prefix of the entry
CallPrefixNew ==
    /\ k_prefix' = Some(StorageKeyPrefix_new(k_pallet, k_item))
    /\ UNCHANGED <<k_pallet, k_item, k_plan, k_key, k_hash>>
    /\ UNCHANGED <<iterVars, fetchVars>>

\* a caller builds the final key of the entry
CallFinalKey ==
    /\ k_key' = Some(final_key(k_pallet, k_item, k_plan))
    /\ UNCHANGED <<k_pallet, k_item, k_plan, k_prefix, k_hash>>
    /\ UNCHANGED <<iterVars, fetchVars>>

\* final_key hashes one of the plan's map keys (line 111)
CallHash ==
    /\ \E i \in 1..Len(k_plan.map_keys) :
         LET map_key == k_plan.map_keys[i]
         IN  k_hash' = Some([hasher |-> map_key.hasher,
                             bytes |-> map_key.value,
                             out |-> hash(map_key.hasher, map_key.value)])
    /\ UNCHANGED <<k_pallet, k_item, k_plan, k_prefix, k_key>>
    /\ UNCHANGED <<iterVars, fetchVars>>

(***************************************************************************)
(* The node's map.                                                         *)
(***************************************************************************)
Keys == 1..MaxKeys

\* the raw values the node may hold: a well-formed one and one too short
NodeVals == {Encode(258), <<7>>}

RECURSIVE SortedSeq(_)
SortedSeq(S) ==
    IF S = {} THEN <<>>
    ELSE LET m == CHOOSE x \in S : \A y \in S : x <= y
         IN  <<m>> \o SortedSeq(S \ {m})

\* Rpc::storage_keys_paged: up to n keys of the map, in lexicographic order,
\* that follow `start` (all of them from the first when start is None)
storage_keys_paged(st, n, start) ==
    LET after == {k \in Keys : st[k] # None /\ (start = None \/ k > start[1])}
        all == SortedSeq(after)
    IN  SubSeq(all, 1, Min(n, Len(all)))

\* Rpc::query_storage_at: the change set holding, for each key asked, its
\* value at the block (None for a key with no value)
ChangesAt(st, ks) == [i \in 1..Len(ks) |-> <<ks[i], st[ks[i]]>>]

\* the answers of query_storage_at: the changes in one change set, or cut in two
query_storage_at(st, ks) ==
    {<<ChangesAt(st, ks)>>} \cup
    {<<SubSeq(ChangesAt(st, ks), 1, i),
       SubSeq(ChangesAt(st, ks), i + 1, Len(ks))>> : i \in 1..(Len(ks) - 1)}

\* the block a KeyIter is made for
BlockHashes == {"0xb1"}

\* every map the node may hold
Stores == [Keys -> {None} \cup {Some(v) : v \in NodeVals}]

\* what a request carrying the hash `at` may read: the map at the iterator's
\* block when it names that block, otherwise the map of whichever block the
\* node resolves (its best block when `at` is absent), any map at all
state_at(at) == IF at = Some(iter_hash) THEN {store} ELSE Stores

(***************************************************************************)
(* KeyIter::next, storage.rs:250-281.                                      *)
(***************************************************************************)
Ret(tag, k, v) == [tag |-> tag, key |-> k, val |-> v]

\* as last_key, but the cursor is set to the page's first key
first_key(page) == Some(page[1])

\* line 264: self.start_key = keys.last().cloned()
last_key(page) == Some(page[Len(page)])

\* as push_changes, but each pair is put at the front of the buffer
RECURSIVE push_changes_front(_, _)
push_changes_front(buf, changes) ==
    IF changes = <<>> THEN buf
    ELSE LET c == Head(changes)
         IN  push_changes_front(IF c[2] # None
                                THEN <<(<<c[1], c[2][1]>>)>> \o buf
                                ELSE buf,
                                Tail(changes))

\* lines 272-276: push every change that carries a value
RECURSIVE push_changes(_, _)
push_changes(buf, changes) ==
    IF changes = <<>> THEN buf
    ELSE LET c == Head(changes)
         IN  push_changes(IF c[2] # None
                          THEN Append(buf, <<c[1], c[2][1]>>)
                          ELSE buf,
                          Tail(changes))

\* lines 271-277: for change_set in change_sets
RECURSIVE push_change_sets(_, _)
push_change_sets(buf, sets) ==
    IF sets = <<>> THEN buf
    ELSE push_change_sets(push_changes(buf, Head(sets)), Tail(sets))

\* line 278: debug_assert_eq!(self.buffer.len(), keys.len())
assert_fails(buf, page) == debug_assertions /\ Len(buf) # Len(page)

\* a pop that removes the first pair instead
after_pop_front(buf) == Tail(buf)

\* a pop that puts the pair back when its value does not decode
after_pop_if_decodes(buf) ==
    IF Decode(buf[Len(buf)][2]).ok THEN SubSeq(buf, 1, Len(buf) - 1) ELSE buf

\* line 252: self.buffer.pop() takes the last pair
popped(buf) == buf[Len(buf)]

after_pop(buf) == SubSeq(buf, 1, Len(buf) - 1)

\* line 257: self.start_key.take() leaves None in the field
after_take(sk) == None

\* the entry F the iterator is made for: System::Account
IterPallet == <<83, 121, 115, 116, 101, 109>>
IterItem == <<65, 99, 99, 111, 117, 110, 116>>

\* a request without a block reference
request_hash_none(h) == None

\* lines 258 and 268: both requests are given Some(self.hash)
request_hash(h) == Some(h)

\* fetch_keys (lines 229-233): storage_keys_paged(Some(prefix), count,
\* start_key, hash)
fetch_keys_request(h) ==
    [method |-> "storage_keys_paged",
     prefix |-> Some(StorageKeyPrefix_new(IterPallet, IterItem)),
     hash |-> request_hash(h)]

\* lines 266-270: query_storage_at(&keys, Some(self.hash))
query_storage_at_request(h) ==
    [method |-> "query_storage_at",
     prefix |-> None,
     hash |-> request_hash(h)]

\* a call that goes on after a failed request and issues it again
after_error_retry(p) == p

\* lines 258 and 270: `?` leaves next with the transport error
after_error(p) == "idle"

\* One turn of the loop (lines 251-258) with buffer buf and cursor sk, in a
\* call that has issued n requests: return the popped pair (line 253), or
\* take the cursor and issue fetch_keys.
loop_head(buf, sk, n) ==
    IF buf # <<>>
    THEN LET kv == popped(buf)
             d == Decode(kv[2])
         IN  /\ buffer' = after_pop(buf)
             /\ pre_pop' = buf
             /\ call_reqs' = n
             /\ UNCHANGED <<req_hash, reqs>>
             /\ start_key' = sk
             /\ pc' = "idle"
             /\ req_start' = None
             /\ ret' = IF d.ok THEN Ret("pair", kv[1], d.val)
                               ELSE Ret("decode_err", 0, 0)
             /\ yielded' = IF d.ok /\ ~exhausted
                           THEN [yielded EXCEPT ![kv[1]] = @ + 1]
                           ELSE yielded
             /\ order' = IF d.ok /\ ~exhausted
                         THEN Append(order, kv[1])
                         ELSE order
             /\ faults' = IF d.ok \/ exhausted THEN faults
                          ELSE faults \cup {"decode"}
             /\ nList' = nList
    ELSE /\ buffer' = buf
         /\ pre_pop' = pre_pop
         /\ call_reqs' = n + 1
         /\ req_hash' = request_hash(iter_hash)
         /\ reqs' = reqs \cup {fetch_keys_request(iter_hash)}
         /\ start_key' = after_take(sk)
         /\ req_start' = sk
         /\ pc' = "listing"
         /\ ret' = ret
         /\ yielded' = yielded
         /\ order' = order
         /\ faults' = faults
         /\ nList' = IF exhausted THEN nList ELSE nList + 1

\* the caller calls next
NextCall ==
    /\ pc = "idle"
    /\ call_start_key' = start_key
    /\ call_buffer' = buffer
    /\ call_failed' = FALSE
    /\ loop_head(buffer, start_key, 0)
    /\ keys' = <<>>
    /\ UNCHANGED <<count, debug_assertions, iter_hash, store, exhausted,
                   lastListLen, both, dropped, changed, nFaults, nMut,
                   asserted>>
    /\ UNCHANGED <<keyVars, fetchVars>>

\* fetch_keys is answered with a page (lines 255-270)
ListAnswer ==
    /\ pc = "listing"
    /\ \E st \in state_at(req_hash) :
         LET page == storage_keys_paged(st, count, req_start)
         IN  /\ lastListLen' = IF exhausted THEN lastListLen ELSE Len(page)
             /\ IF page = <<>>
                THEN /\ pc' = "idle"
                     /\ ret' = Ret("none", 0, 0)
                     /\ exhausted' = TRUE
                     /\ keys' = <<>>
                     /\ UNCHANGED <<start_key, req_hash, reqs, call_reqs>>
                ELSE /\ start_key' = last_key(page)
                     /\ keys' = page
                     /\ pc' = "reading"
                     /\ req_hash' = request_hash(iter_hash)
                     /\ reqs' = reqs \cup {query_storage_at_request(iter_hash)}
                     /\ call_reqs' = call_reqs + 1
                     /\ UNCHANGED <<ret, exhausted>>
    /\ req_start' = None
    /\ UNCHANGED <<count, buffer, debug_assertions, iter_hash, store, yielded,
                   order, nList, both, dropped, changed, faults, nFaults,
                   nMut, asserted, pre_pop, call_start_key, call_buffer,
                   call_failed>>
    /\ UNCHANGED <<keyVars, fetchVars>>

\* query_storage_at is answered (lines 266-280)
ReadAnswer ==
    /\ pc = "reading"
    /\ \E st \in state_at(req_hash) :
       \E sets \in query_storage_at(st, keys) :
         LET buf == push_change_sets(buffer, sets)
             here == {keys[i] : i \in 1..Len(keys)}
             have == {k \in here : st[k] # None}
         IN  /\ both' = IF exhausted THEN both ELSE both \cup have
             /\ dropped' = IF exhausted THEN dropped
                           ELSE dropped \cup (here \ have)
             /\ asserted' = <<Len(buf), Len(keys)>>
             /\ IF assert_fails(buf, keys)
                THEN /\ pc' = "panicked"
                     /\ buffer' = buf
                     /\ ret' = Ret("panic", 0, 0)
                     /\ UNCHANGED <<start_key, req_start, yielded, order,
                                    faults, nList, req_hash, reqs, pre_pop,
                                    call_reqs>>
                ELSE loop_head(buf, start_key, call_reqs)
    /\ keys' = <<>>
    /\ UNCHANGED <<count, debug_assertions, iter_hash, store, exhausted,
                   lastListLen, changed, nFaults, nMut, call_start_key,
                   call_buffer, call_failed>>
    /\ UNCHANGED <<keyVars, fetchVars>>

\* the pending request fails: `?` returns the transport error (lines 258, 270)
TransportError ==
    /\ pc \in {"listing", "reading"}
    /\ exhausted \/ nFaults < MaxFaults
    /\ call_failed' = TRUE
    /\ pc' = after_error(pc)
    /\ IF pc' = "idle"
       THEN /\ ret' = Ret("transport_err", 0, 0)
            /\ keys' = <<>>
            /\ req_start' = None
            /\ call_reqs' = call_reqs
       ELSE /\ call_reqs' = call_reqs + 1
            /\ UNCHANGED <<ret, keys, req_start>>
    /\ faults' = IF exhausted THEN faults ELSE faults \cup {"transport"}
    /\ nFaults' = IF exhausted THEN nFaults ELSE nFaults + 1
    /\ UNCHANGED <<count, start_key, buffer, debug_assertions, iter_hash,
                   req_hash, store, exhausted, yielded, order, nList,
                   lastListLen, both, dropped, changed, nMut, reqs, asserted,
                   pre_pop, call_start_key, call_buffer>>
    /\ UNCHANGED <<keyVars, fetchVars>>

\* the caller drops the future of next at one of its two awaits
Cancel ==
    /\ pc \in {"listing", "reading"}
    /\ exhausted \/ nFaults < MaxFaults
    /\ pc' = "idle"
    /\ ret' = Ret("cancelled", 0, 0)
    /\ keys' = <<>>
    /\ req_start' = None
    /\ faults' = IF exhausted THEN faults ELSE faults \cup {"cancel"}
    /\ nFaults' = IF exhausted THEN nFaults ELSE nFaults + 1
    /\ UNCHANGED <<count, start_key, buffer, debug_assertions, iter_hash,
                   req_hash, store, exhausted, yielded, order, nList,
                   lastListLen, both, dropped, changed, nMut, reqs, asserted,
                   pre_pop, call_start_key, call_buffer, call_reqs,
                   call_failed>>
    /\ UNCHANGED <<keyVars, fetchVars>>

\* the node's map gains an entry
NodeInsert ==
    /\ nMut < MaxMut
    /\ \E k \in Keys, v \in NodeVals :
         /\ store[k] = None
         /\ store' = [store EXCEPT ![k] = Some(v)]
    /\ nMut' = nMut + 1
    /\ changed' = TRUE
    /\ UNCHANGED <<count, start_key, buffer, pc, keys, req_start, ret,
                   debug_assertions, iter_hash, req_hash, exhausted, yielded,
                   order, nList, lastListLen, both, dropped, faults, nFaults,
                   reqs, asserted, pre_pop, call_start_key, call_buffer,
                   call_reqs, call_failed>>
    /\ UNCHANGED <<keyVars, fetchVars>>

\* the node's map loses an entry
NodeDelete ==
    /\ nMut < MaxMut
    /\ \E k \in Keys :
         /\ store[k] # None
         /\ store' = [store EXCEPT ![k] = None]
    /\ nMut' = nMut + 1
    /\ changed' = TRUE
    /\ UNCHANGED <<count, start_key, buffer, pc, keys, req_start, ret,
                   debug_assertions, iter_hash, req_hash, exhausted, yielded,
                   order, nList, lastListLen, both, dropped, faults, nFaults,
                   reqs, asserted, pre_pop, call_start_key, call_buffer,
                   call_reqs, call_failed>>
    /\ UNCHANGED <<keyVars, fetchVars>>

(***************************************************************************)
(* Fetch, storage.rs:159-208.                                              *)
(***************************************************************************)
\* the entries fetched: Balances::TotalIssuance (plain) and System::Account
\* (a map keyed by one Blake2_128Concat-hashed account id)
FetchEntries ==
    {[pallet |-> <<66, 97, 108, 97, 110, 99, 101, 115>>,
      item |-> <<84, 111, 116, 97, 108, 73, 115, 115, 117, 97, 110, 99, 101>>,
      plan |-> Plain],
     [pallet |-> <<83, 121, 115, 116, 101, 109>>,
      item |-> <<65, 99, 99, 111, 117, 110, 116>>,
      plan |-> Map(<<StorageMapKey(<<212, 53>>, "Blake2_128Concat")>>)]}

\* entries whose key() is written wrongly: System::Account, declared as a
\* map of one key, giving a plain plan or a plan of two map keys
MisbuiltEntries ==
    {[pallet |-> <<83, 121, 115, 116, 101, 109>>,
      item |-> <<65, 99, 99, 111, 117, 110, 116>>,
      plan |-> Plain],
     [pallet |-> <<83, 121, 115, 116, 101, 109>>,
      item |-> <<65, 99, 99, 111, 117, 110, 116>>,
      plan |-> Map(<<StorageMapKey(<<212, 53>>, "Blake2_128Concat"),
                     StorageMapKey(<<>>, "Twox64Concat")>>)]}

\* the number of map keys the metadata declares for the entry
declared_arity(e) ==
    IF e.item = <<65, 99, 99, 111, 117, 110, 116>> THEN 1 ELSE 0

\* the number of map keys of a StorageEntryKey (lines 97-102)
arity(plan) == IF plan.kind = "Plain" THEN 0 ELSE Len(plan.map_keys)

\* line 190: store.key().final_key(StorageKeyPrefix::new::<F>()), for every
\* entry a caller may pass
entry_key ==
    [e \in FetchEntries \cup MisbuiltEntries |->
        final_key(e.pallet, e.item, e.plan)]

\* the one key under which the node may hold a value
NodeKey ==
    final_key(<<66, 97, 108, 97, 110, 99, 101, 115>>,
              <<84, 111, 116, 97, 108, 73, 115, 115, 117, 97, 110, 99, 101>>,
              Plain)

\* Rpc::storage: the value under key, now (at = None) or at the block `at`
rpc_storage(key, at) ==
    IF key # NodeKey THEN None
    ELSE IF at = None THEN cell ELSE cell_at

\* Metadata: pallet(name)?.storage(name)?.default()?, the default decoded as
\* the entry's value type
Metas ==
    [pallet_known : BOOLEAN, item_known : BOOLEAN,
     default : {Encode(5), <<9>>}]

FRet(tag, v) == [tag |-> tag, val |-> v]

metadata_default(m) ==
    IF ~m.pallet_known THEN FRet("metadata_err", 0)
    ELSE IF ~m.item_known THEN FRet("metadata_err", 0)
    ELSE LET d == Decode(m.default)
         IN  IF d.ok THEN FRet("value", d.val) ELSE FRet("metadata_err", 0)

\* as fetch_unhashed, but bytes that do not decode are reported as no value
fetch_unhashed_lenient(resp) ==
    IF ~resp.ok THEN FRet("transport_err", 0)
    ELSE IF resp.data # None /\ Decode(resp.data[1]).ok
         THEN FRet("some", Decode(resp.data[1]).val)
         ELSE FRet("none", 0)

\* as fetch_unhashed, but a result once obtained is kept and returned again
fetch_unhashed_memo(resp) ==
    IF f_ret.tag \in {"some", "none"} THEN f_ret
    ELSE IF ~resp.ok THEN FRet("transport_err", 0)
    ELSE IF resp.data # None
         THEN LET d == Decode(resp.data[1])
              IN  IF d.ok THEN FRet("some", d.val) ELSE FRet("decode_err", 0)
         ELSE FRet("none", 0)

\* StorageClient::fetch_unhashed, lines 172-182, from the answer of
\* Rpc::storage on: Err(e)? / Some(data) decoded / None
fetch_unhashed(resp) ==
    IF ~resp.ok THEN FRet("transport_err", 0)
    ELSE IF resp.data # None
         THEN LET d == Decode(resp.data[1])
              IN  IF d.ok THEN FRet("some", d.val) ELSE FRet("decode_err", 0)
         ELSE FRet("none", 0)

\* StorageClient::fetch, lines 185-192: fetch_unhashed of the final key
fetch(resp) == fetch_unhashed(resp)

\* as fetch_or_default, but the metadata's default wins over a stored value
fetch_or_default_eager(resp, m) ==
    LET r == fetch(resp)
        d == metadata_default(m)
    IN  IF r.tag \in {"some", "none"}
        THEN (IF d.tag = "value" \/ r.tag = "none" THEN d
              ELSE FRet("value", r.val))
        ELSE r

\* as fetch_or_default, but the default stands in for every call that got
\* no value, failed ones included
fetch_or_default_on_error(resp, m) ==
    LET r == fetch(resp)
    IN  IF r.tag = "some" THEN FRet("value", r.val)
        ELSE metadata_default(m)

\* lines 197-206: the metadata is read in the else branch only, after
\* fetch(..)? has returned Ok(None)
consults_metadata(resp) == fetch(resp).tag = "none"

\* StorageClient::fetch_or_default, lines 195-208
fetch_or_default(resp, m) ==
    LET r == fetch(resp)
    IN  IF r.tag = "some" THEN FRet("value", r.val)
        ELSE IF r.tag = "none" THEN metadata_default(m)
        ELSE r

\* StorageClient::query_storage, lines 211-218: the answer of
\* Rpc::query_storage passed on, here the number of change sets in it
query_storage(resp) ==
    IF ~resp.ok THEN FRet("transport_err", 0)
    ELSE FRet("change_sets", Len(resp.data))

NothingSeen == [ok |-> FALSE, data |-> None, int |-> None]

NoCall == [op |-> "none", key |-> <<>>, hash |-> None,
           ret |-> FRet("init", 0), seen |-> NothingSeen]

\* a caller calls fetch_unhashed with a key
FetchUnhashedCall ==
    /\ f_pc = "idle"
    /\ \E e \in FetchEntries, h \in {None, Some("block")} :
         /\ f_key' = entry_key[e]
         /\ f_hash' = h
    /\ f_entry' = None
    /\ f_op' = "fetch_unhashed"
    /\ f_pc' = "awaiting"
    /\ f_reads' = 1
    /\ f_meta_used' = FALSE
    /\ f_prev' = [op |-> f_op, key |-> f_key, hash |-> f_hash,
                  ret |-> f_ret, seen |-> f_seen]
    /\ UNCHANGED <<f_ret, f_seen, cell, cell_at, cell_int, meta>>
    /\ UNCHANGED <<iterVars, keyVars>>

\* a caller calls fetch with an entry: line 190 builds the key
FetchCall ==
    /\ f_pc = "idle"
    /\ \E e \in FetchEntries \cup MisbuiltEntries,
          h \in {None, Some("block")} :
         /\ f_entry' = Some(e)
         /\ f_key' = entry_key[e]
         /\ f_hash' = h
    /\ f_op' = "fetch"
    /\ f_pc' = "awaiting"
    /\ f_reads' = 1
    /\ f_meta_used' = FALSE
    /\ f_prev' = [op |-> f_op, key |-> f_key, hash |-> f_hash,
                  ret |-> f_ret, seen |-> f_seen]
    /\ UNCHANGED <<f_ret, f_seen, cell, cell_at, cell_int, meta>>
    /\ UNCHANGED <<iterVars, keyVars>>

\* a caller calls fetch_or_default with an entry
FetchOrDefaultCall ==
    /\ f_pc = "idle"
    /\ \E e \in FetchEntries \cup MisbuiltEntries,
          h \in {None, Some("block")} :
         /\ f_entry' = Some(e)
         /\ f_key' = entry_key[e]
         /\ f_hash' = h
    /\ f_op' = "fetch_or_default"
    /\ f_pc' = "awaiting"
    /\ f_reads' = 1
    /\ f_meta_used' = FALSE
    /\ f_prev' = [op |-> f_op, key |-> f_key, hash |-> f_hash,
                  ret |-> f_ret, seen |-> f_seen]
    /\ UNCHANGED <<f_ret, f_seen, cell, cell_at, cell_int, meta>>
    /\ UNCHANGED <<iterVars, keyVars>>

\* a caller calls query_storage with one key and the block range from
\* `hash` on
QueryStorageCall ==
    /\ f_pc = "idle"
    /\ \E e \in FetchEntries :
         /\ f_key' = entry_key[e]
         /\ f_hash' = Some("block")
    /\ f_entry' = None
    /\ f_op' = "query_storage"
    /\ f_pc' = "awaiting"
    /\ f_reads' = 1
    /\ f_meta_used' = FALSE
    /\ f_prev' = [op |-> f_op, key |-> f_key, hash |-> f_hash,
                  ret |-> f_ret, seen |-> f_seen]
    /\ UNCHANGED <<f_ret, f_seen, cell, cell_at, cell_int, meta>>
    /\ UNCHANGED <<iterVars, keyVars>>

\* what the call returns on the answer resp of the transport
Returned(op, resp) ==
    CASE op = "fetch_unhashed" -> fetch_unhashed(resp)
      [] op = "fetch" -> fetch(resp)
      [] op = "fetch_or_default" -> fetch_or_default(resp, meta)
      [] op = "query_storage" -> query_storage(resp)

\* Rpc::storage answers with the node's value
StorageAnswer ==
    /\ f_pc = "awaiting"
    /\ LET data == rpc_storage(f_key, f_hash)
       IN  /\ f_ret' = Returned(f_op, [ok |-> TRUE, data |-> data])
           /\ f_meta_used' = (/\ f_op = "fetch_or_default"
                              /\ consults_metadata([ok |-> TRUE,
                                                    data |-> data]))
           /\ f_seen' = [ok |-> TRUE, data |-> data,
                         int |-> IF f_key = NodeKey /\ f_hash = None
                                 THEN cell_int ELSE None]
    /\ f_pc' = "idle"
    /\ UNCHANGED <<f_op, f_entry, f_key, f_hash, f_reads, f_prev, cell,
                   cell_at, cell_int, meta>>
    /\ UNCHANGED <<iterVars, keyVars>>

\* Rpc::storage fails
StorageError ==
    /\ f_pc = "awaiting"
    /\ f_ret' = Returned(f_op, [ok |-> FALSE, data |-> None])
    /\ f_meta_used' = (/\ f_op = "fetch_or_default"
                       /\ consults_metadata([ok |-> FALSE, data |-> None]))
    /\ f_seen' = NothingSeen
    /\ f_pc' = "idle"
    /\ UNCHANGED <<f_op, f_entry, f_key, f_hash, f_reads, f_prev, cell,
                   cell_at, cell_int, meta>>
    /\ UNCHANGED <<iterVars, keyVars>>

\* the node writes the encoding of n under NodeKey
CellWrite ==
    /\ \E n \in {1, 258} :
         /\ cell_int # Some(n)
         /\ cell' = Some(Encode(n))
         /\ cell_int' = Some(n)
    /\ UNCHANGED <<f_pc, f_op, f_entry, f_key, f_hash, f_ret, f_reads,
                   f_meta_used, f_seen, f_prev, cell_at, meta>>
    /\ UNCHANGED <<iterVars, keyVars>>

\* the node removes the value under NodeKey
CellDelete ==
    /\ cell # None
    /\ cell' = None
    /\ cell_int' = None
    /\ UNCHANGED <<f_pc, f_op, f_entry, f_key, f_hash, f_ret, f_reads,
                   f_meta_used, f_seen, f_prev, cell_at, meta>>
    /\ UNCHANGED <<iterVars, keyVars>>

(***************************************************************************)
(* Initial states and specifications.                                      *)
(***************************************************************************)
\* a fresh KeyIter: no cursor, nothing buffered, nothing requested yet
IterFresh ==
    /\ start_key = None
    /\ buffer = <<>>
    /\ pc = "idle"
    /\ keys = <<>>
    /\ req_start = None
    /\ ret = Ret("init", 0, 0)
    /\ exhausted = FALSE
    /\ yielded = [k \in Keys |-> 0]
    /\ order = <<>>
    /\ nList = 0
    /\ lastListLen = 0
    /\ both = {}
    /\ dropped = {}
    /\ changed = FALSE
    /\ faults = {}
    /\ nFaults = 0
    /\ nMut = 0
    /\ call_start_key = None
    /\ call_buffer = <<>>
    /\ req_hash = None
    /\ reqs = {}
    /\ asserted = <<0, 0>>
    /\ pre_pop = <<>>
    /\ call_reqs = 0
    /\ call_failed = FALSE

InitIter ==
    /\ count \in 1..MaxCount
    /\ debug_assertions \in BOOLEAN
    /\ iter_hash \in BlockHashes
    /\ store \in Stores
    /\ IterFresh

\* no iterator in use
IterIdle ==
    /\ count = 1
    /\ debug_assertions = FALSE
    /\ iter_hash = "0xb1"
    /\ store = [k \in Keys |-> None]
    /\ IterFresh

InitKey ==
    /\ k_pallet \in Pallets
    /\ k_item \in Items
    /\ k_plan \in Plans
    /\ k_prefix = None
    /\ k_key = None
    /\ k_hash = None

\* no key derivation in progress
KeyIdle ==
    /\ k_pallet = <<>>
    /\ k_item = <<>>
    /\ k_plan = Plain
    /\ k_prefix = None
    /\ k_key = None
    /\ k_hash = None

\* the node's cell holds nothing, the encoding of 1, bytes too short to
\* decode, or the encoding of 258 followed by one more byte
InitFetch ==
    /\ f_pc = "idle"
    /\ f_op = "none"
    /\ f_entry = None
    /\ f_key = <<>>
    /\ f_hash = None
    /\ f_ret = FRet("init", 0)
    /\ f_reads = 0
    /\ f_meta_used = FALSE
    /\ f_seen = NothingSeen
    /\ f_prev = NoCall
    /\ \E c \in {<<None, None>>, <<Some(Encode(1)), Some(1)>>,
                 <<Some(<<7>>), None>>, <<Some(<<2, 1, 9>>), None>>} :
         /\ cell = c[1]
         /\ cell_at = c[1]
         /\ cell_int = c[2]
    /\ meta \in Metas

\* no fetch in progress
FetchIdle ==
    /\ f_pc = "idle"
    /\ f_op = "none"
    /\ f_entry = None
    /\ f_key = <<>>
    /\ f_hash = None
    /\ f_ret = FRet("init", 0)
    /\ f_reads = 0
    /\ f_meta_used = FALSE
    /\ f_seen = NothingSeen
    /\ f_prev = NoCall
    /\ cell = None
    /\ cell_at = None
    /\ cell_int = None
    /\ meta = [pallet_known |-> TRUE, item_known |-> TRUE,
               default |-> Encode(5)]

Init == InitIter /\ KeyIdle /\ FetchIdle

InitKeyOnly == IterIdle /\ InitKey /\ FetchIdle

InitFetchOnly == IterIdle /\ KeyIdle /\ InitFetch

\* KeyIter::next against a node whose map may change
Next ==
    \/ NextCall
    \/ ListAnswer
    \/ ReadAnswer
    \/ NodeInsert
    \/ NodeDelete

Spec == Init /\ [][Next]_vars

\* KeyIter::next on an unchanging map, with calls that fail or are abandoned
NextFault ==
    \/ NextCall
    \/ ListAnswer
    \/ ReadAnswer
    \/ TransportError
    \/ Cancel

SpecFault == Init /\ [][NextFault]_vars

\* key derivation
NextKey ==
    \/ CallPrefixNew
    \/ CallFinalKey
    \/ CallHash

SpecKey == InitKeyOnly /\ [][NextKey]_vars

\* single-entry fetch against a node that rewrites the value
NextFetch ==
    \/ FetchUnhashedCall
    \/ FetchCall
    \/ FetchOrDefaultCall
    \/ QueryStorageCall
    \/ StorageAnswer
    \/ StorageError
    \/ CellWrite
    \/ CellDelete

SpecFetch == InitFetchOnly /\ [][NextFetch]_vars

\* one caller: either it iterates an unchanging map or it fetches single
\* entries, and any request may fail
InitErr ==
    \/ InitIter /\ KeyIdle /\ FetchIdle
    \/ IterIdle /\ KeyIdle /\ InitFetch

NextErr ==
    \/ FetchIdle /\ NextCall
    \/ FetchIdle /\ ListAnswer
    \/ FetchIdle /\ ReadAnswer
    \/ FetchIdle /\ TransportError
    \/ FetchIdle /\ Cancel
    \/ IterIdle /\ FetchUnhashedCall
    \/ IterIdle /\ FetchCall
    \/ IterIdle /\ FetchOrDefaultCall
    \/ IterIdle /\ QueryStorageCall
    \/ IterIdle /\ StorageAnswer
    \/ IterIdle /\ StorageError
    \/ IterIdle /\ CellWrite
    \/ IterIdle /\ CellDelete

SpecErr == InitErr /\ [][NextErr]_vars

(***************************************************************************)
(* Claims about KeyIter::next.                                             *)
(***************************************************************************)
\* the keys of the node's map
Entries(st) == {k \in Keys : st[k] # None}

\* every stored value decodes as the entry's value type
WellFormed(st) == \A k \in Entries(st) : Decode(st[k][1]).ok

\* C1: once next has returned "no more items", no later call of next yields
\* a (key, value) pair: the last return is never a pair after exhaustion.
\* Stated for a map that has not changed, where no new key can account for
\* a later pair.
C1_ExhaustedNeverYields == (exhausted /\ ~changed) => ret.tag # "pair"

\* C2: when the iteration is over (next has reported "no more items", or has
\* ended in a panic) and no value read failed or would fail to decode, every
\* key that was listed and had a value at its page's read has been yielded
\* exactly once, and a key that had no value at its page's read has not been
\* yielded.
C2_ExactlyOnce ==
    (/\ exhausted \/ pc = "panicked"
     /\ faults = {}
     /\ \A i \in 1..Len(buffer) : Decode(buffer[i][2]).ok) =>
        /\ \A k \in both : yielded[k] = 1
        /\ \A k \in dropped \ both : yielded[k] = 0

\* C3: on a map of N well-formed entries that does not change, iterated with
\* page size count < N until the first "no more items" with no failed call:
\* every key of the map is yielded once and no other key is (N pairs, N
\* distinct keys), ceil(N / count) + 1 listings were requested, and the last
\* listing returned no key.
C3_PaginationExhaustion ==
    LET N == Cardinality(Entries(store))
    IN  (exhausted /\ ~changed /\ faults = {} /\ WellFormed(store)
             /\ 1 <= count /\ count < N) =>
            /\ \A k \in Keys :
                 yielded[k] = IF k \in Entries(store) THEN 1 ELSE 0
            /\ nList = ((N + count - 1) \div count) + 1
            /\ lastListLen = 0

\* C3's case: three entries, pages of two, iterated to the end
C3_Witness ==
    /\ exhausted /\ ~changed /\ faults = {} /\ WellFormed(store)
    /\ Cardinality(Entries(store)) = 3
    /\ count = 2
    /\ nList = 3

\* C4: when a listed key has no value at its page's read, next does not
\* abort, and the key is not yielded for that page.
C4_AbsentValueTolerated ==
    dropped # {} =>
        /\ pc # "panicked"
        /\ ret.tag # "panic"
        /\ \A k \in dropped \ both : yielded[k] = 0

\* C5: after a call of next was cancelled at one of its awaits, the cursor
\* and the buffer are what they were when that call began.
C5_CancelLeavesNoTrace ==
    (pc = "idle" /\ ret.tag = "cancelled") =>
        /\ start_key = call_start_key
        /\ buffer = call_buffer

(***************************************************************************)
(* Claims about key derivation.                                            *)
(***************************************************************************)
\* the place of map key i's hash in the final key: what precedes it
RECURSIVE OffsetOf(_, _)
OffsetOf(map_keys, i) ==
    IF i = 1 THEN 32
    ELSE OffsetOf(map_keys, i - 1)
         + Len(hash(map_keys[i - 1].hasher, map_keys[i - 1].value))

\* C9: the final key is twox_128(pallet), then twox_128(item), then the hash
\* of each map key at its place in declared order, and ends there; with no
\* map key (Plain, or Map of none) it is the bytes of StorageKeyPrefix::new.
C9_FinalKeyLayout ==
    k_key # None =>
        LET key == k_key[1]
            mk == k_plan.map_keys
            n == Len(mk)
        IN  /\ SubSeq(key, 1, 16) = twox_128(k_pallet)
            /\ SubSeq(key, 17, 32) = twox_128(k_item)
            /\ \A i \in 1..n :
                 SubSeq(key, OffsetOf(mk, i) + 1, OffsetOf(mk, i + 1))
                    = hash(mk[i].hasher, mk[i].value)
            /\ Len(key) = OffsetOf(mk, n + 1)
            /\ (n = 0 /\ k_prefix # None) => key = k_prefix[1]

\* C9's case: a final key built from two map keys with different hashers,
\* and the prefix of the same entry
C9_Witness ==
    /\ k_key # None
    /\ k_prefix # None
    /\ Len(k_plan.map_keys) = 2
    /\ k_plan.map_keys[1].hasher = "Twox64Concat"
    /\ k_plan.map_keys[2].hasher = "Blake2_256"
    /\ k_plan.map_keys[1].value # <<>>

\* C10: hash(Blake2_128Concat, b) is 16 bytes and then b, hash(Twox64Concat,
\* b) is 8 bytes and then b, hash(Identity, b) is b; and the final key of a
\* one-map-key entry hashed with Blake2_128Concat is 32 + 16 bytes and then
\* the map key's encoded bytes.
C10_ConcatKeepsPreimage ==
    /\ k_hash # None =>
         LET r == k_hash[1]
         IN  /\ r.hasher = "Blake2_128Concat" =>
                   /\ Len(r.out) = 16 + Len(r.bytes)
                   /\ SubSeq(r.out, 17, Len(r.out)) = r.bytes
             /\ r.hasher = "Twox64Concat" =>
                   /\ Len(r.out) = 8 + Len(r.bytes)
                   /\ SubSeq(r.out, 9, Len(r.out)) = r.bytes
             /\ r.hasher = "Identity" => r.out = r.bytes
    /\ (/\ k_key # None
        /\ Len(k_plan.map_keys) = 1
        /\ k_plan.map_keys[1].hasher = "Blake2_128Concat") =>
         /\ Len(k_key[1]) = 48 + Len(k_plan.map_keys[1].value)
         /\ SubSeq(k_key[1], 49, Len(k_key[1])) = k_plan.map_keys[1].value

\* C10's case: a non-empty map key hashed with Blake2_128Concat, alone and
\* as the only map key of a final key
C10_Witness ==
    /\ k_hash # None
    /\ k_hash[1].hasher = "Blake2_128Concat"
    /\ k_hash[1].bytes = <<212, 53>>
    /\ k_key # None
    /\ Len(k_plan.map_keys) = 1

(***************************************************************************)
(* Claims about fetch.                                                     *)
(***************************************************************************)
\* a call of fetch or fetch_unhashed has returned
FetchReturned == f_pc = "idle" /\ f_op \in {"fetch", "fetch_unhashed"}

\* C6: fetch and fetch_unhashed return Ok(None) exactly when the transport
\* read returned no bytes; on bytes that do not decode they return a decode
\* error; on bytes that decode they return Ok(Some(the decoded value)).
C6_AbsentOrCorrupt ==
    FetchReturned =>
        /\ f_ret.tag = "none" <=> (f_seen.ok /\ f_seen.data = None)
        /\ (f_seen.ok /\ f_seen.data # None) =>
             LET d == Decode(f_seen.data[1])
             IN  IF d.ok THEN f_ret = FRet("some", d.val)
                         ELSE f_ret = FRet("decode_err", 0)

\* C6's case: fetch read bytes too short for the value type
C6_Witness ==
    /\ FetchReturned
    /\ f_op = "fetch"
    /\ f_seen.ok
    /\ f_seen.data = Some(<<7>>)
    /\ f_ret.tag = "decode_err"

\* C7: fetch_or_default returns the decoded stored value when an entry is
\* stored, whatever the metadata holds; with no entry stored it returns the
\* decoded default of the metadata, or a metadata error when the pallet or
\* the item is unknown or the default does not decode.
C7_DefaultFallback ==
    (f_pc = "idle" /\ f_op = "fetch_or_default" /\ f_seen.ok) =>
        /\ (f_seen.data # None /\ Decode(f_seen.data[1]).ok) =>
             f_ret = FRet("value", Decode(f_seen.data[1]).val)
        /\ f_seen.data = None =>
             IF meta.pallet_known /\ meta.item_known /\ Decode(meta.default).ok
             THEN f_ret = FRet("value", Decode(meta.default).val)
             ELSE f_ret.tag = "metadata_err"

\* C7's case: nothing stored and the metadata's default, 5, is returned
C7_Witness ==
    /\ f_pc = "idle"
    /\ f_op = "fetch_or_default"
    /\ f_seen.ok
    /\ f_seen.data = None
    /\ f_ret = FRet("value", 5)

\* C8: a fetch with no block hash issues one transport read and returns what
\* the node holds when the read is answered (Some(n) when the node wrote n,
\* None when it holds nothing); so of two such fetches of one key around a
\* node-side write the first returns the old value and the second the new.
C8_NoCache ==
    (FetchReturned /\ f_hash = None /\ f_seen.ok) =>
        /\ f_reads = 1
        /\ f_seen.int # None => f_ret = FRet("some", f_seen.int[1])
        /\ f_seen.data = None => f_ret = FRet("none", 0)
        /\ (/\ f_prev.op \in {"fetch", "fetch_unhashed"}
            /\ f_prev.key = f_key
            /\ f_prev.hash = None
            /\ f_prev.seen.int # None
            /\ f_seen.int # None) =>
             /\ f_prev.ret = FRet("some", f_prev.seen.int[1])
             /\ f_ret = FRet("some", f_seen.int[1])

\* C8's case: two fetches of the node's key, 1 read before the node wrote
\* 258 and 258 after
C8_Witness ==
    /\ FetchReturned /\ f_hash = None /\ f_seen.ok
    /\ f_key = NodeKey
    /\ f_prev.op = "fetch" /\ f_prev.key = f_key /\ f_prev.hash = None
    /\ f_prev.seen.int = Some(1)
    /\ f_seen.int = Some(258)
    /\ f_prev.ret = FRet("some", 1)
    /\ f_ret = FRet("some", 258)

(***************************************************************************)
(* Claims about KeyIter::next, continued.                                  *)
(***************************************************************************)
\* the keys of a sorted sequence from place i on, in pages of n keys, each
\* page last key first
RECURSIVE PagesReversed(_, _, _)
PagesReversed(sorted, n, i) ==
    IF i > Len(sorted) THEN <<>>
    ELSE LET last == Min(i + n - 1, Len(sorted))
         IN  [j \in 1..(last - i + 1) |-> sorted[last + 1 - j]]
             \o PagesReversed(sorted, n, last + 1)

IsPrefix(p, q) == Len(p) <= Len(q) /\ SubSeq(q, 1, Len(p)) = p

\* C11: on a map that does not change (well-formed values, no failed call)
\* the keys yielded so far are a prefix of: the keys in ascending order cut
\* into pages of count keys, the pages in order, each page's keys in the
\* reverse of the order the value read returned them; and they are all of
\* it when next reports "no more items".
C11_PageForwardWithinReverse ==
    (~changed /\ faults = {} /\ WellFormed(store)) =>
        LET expected == PagesReversed(SortedSeq(Entries(store)), count, 1)
        IN  /\ IsPrefix(order, expected)
            /\ exhausted => order = expected

\* C11's case: three keys in pages of two come out as 2, 1, 3
C11_Witness ==
    /\ exhausted /\ ~changed /\ faults = {} /\ WellFormed(store)
    /\ count = 2
    /\ order = <<2, 1, 3>>

\* C12: a transport failure is reported once and never retried.  Every call
\* of fetch, fetch_unhashed, fetch_or_default and query_storage issues one
\* transport request, and returns the transport error when it fails; a call
\* of next one of whose requests (fetch_keys or the value read) has failed
\* has returned the transport error, with no request pending.
C12_FailureReportedOnce ==
    /\ call_failed =>
         /\ pc = "idle"
         /\ ret.tag = "transport_err"
    /\ f_op # "none" => f_reads = 1
    /\ (f_op # "none" /\ f_pc = "idle" /\ ~f_seen.ok) =>
         f_ret.tag = "transport_err"

\* C12's case: the value read of a call of next has failed, after its
\* listing was answered
C12_Witness ==
    /\ call_failed
    /\ call_reqs = 2
    /\ ret.tag = "transport_err"

\* C13: a call of next that finds the buffer non-empty has returned without
\* issuing a transport request; it has removed the last buffered pair and
\* nothing else, has left start_key as it was, and has returned that pair's
\* key with its decoded value (when the value decodes).
C13_BufferedPairReturned ==
    call_buffer # <<>> =>
        LET kv == call_buffer[Len(call_buffer)]
            d == Decode(kv[2])
        IN  /\ pc = "idle"
            /\ call_reqs = 0
            /\ buffer = SubSeq(call_buffer, 1, Len(call_buffer) - 1)
            /\ start_key = call_start_key
            /\ d.ok => ret = Ret("pair", kv[1], d.val)

\* C13's case: a call found two pairs buffered and returned the second
C13_Witness ==
    /\ Len(call_buffer) = 2
    /\ Len(buffer) = 1
    /\ ret.tag = "pair"
    /\ ret.key = call_buffer[2][1]

\* C15: the assertion of line 278 holds whenever it is evaluated: after a
\* listing and its value read the buffer holds as many pairs as keys were
\* listed, also when a listed key has no value at the read and when the
\* read answers with several change sets.
C15_AssertionHolds == asserted[1] = asserted[2]

\* C16: when a call of next has returned a transport error, start_key and
\* the buffer are the ones the call began with (so that a further call takes
\* the iteration up where it was, without skipping a page or starting again).
C16_ErrorKeepsState ==
    (pc = "idle" /\ ret.tag = "transport_err") =>
        /\ start_key = call_start_key
        /\ buffer = call_buffer

\* C17: next returns "no more items" only on the answer of a listing that
\* holds no key; and when the value read finds every key of the listed page
\* without a value, next does not return but issues the listing of the
\* following page within the same call.
C17_EndOnlyOnEmptyListing ==
    [][/\ (pc # "idle" /\ pc' = "idle" /\ ret'.tag = "none") =>
            /\ pc = "listing"
            /\ storage_keys_paged(store, count, req_start) = <<>>
       /\ (/\ pc = "reading"
           /\ pc' # "reading"
           /\ \A i \in 1..Len(keys) : store[keys[i]] = None) =>
            /\ pc' = "listing"
            /\ call_reqs' = call_reqs + 1
            /\ ret' = ret]_vars

\* C18: when the bytes of the popped pair do not decode as the value type,
\* the call returns a decode error (not "no more items", not a following
\* pair), and the pair is consumed: the buffer is the one before the pop less
\* its last pair, so later calls go on with the pairs that remain.
C18_DecodeErrorConsumesPair ==
    (pc = "idle" /\ ret.tag \in {"pair", "decode_err"}) =>
        LET kv == pre_pop[Len(pre_pop)]
        IN  /\ pre_pop # <<>>
            /\ buffer = SubSeq(pre_pop, 1, Len(pre_pop) - 1)
            /\ Decode(kv[2]).ok <=> ret.tag = "pair"
            /\ ret.tag = "pair" => ret.key = kv[1]

\* C18's case: of two buffered pairs the last did not decode; the call
\* returned the decode error and the other pair is still buffered
C18_Witness ==
    /\ pc = "idle"
    /\ ret.tag = "decode_err"
    /\ Len(pre_pop) = 2
    /\ ~Decode(pre_pop[2][2]).ok
    /\ buffer = <<pre_pop[1]>>

\* C20: every request one KeyIter has issued carries the same, present
\* block reference, the iterator's hash, and every listing carries the prefix
\* of the iterator's entry (twox_128 of the pallet name, then twox_128 of the
\* item name); hence, as long as the node's map at that block has not
\* changed, no listed key has been found without a value at the value read.
C20_OneBlockOnePrefix ==
    /\ \A r \in reqs :
         /\ r.hash = Some(iter_hash)
         /\ r.method = "storage_keys_paged" =>
              r.prefix = Some(twox_128(IterPallet) \o twox_128(IterItem))
    /\ req_hash \in {None, Some(iter_hash)}
    /\ ~changed => dropped = {}

\* C20's case: an iteration over an unchanged map has listed and read pages
\* to the end, every listed key found with its value
C20_Witness ==
    /\ exhausted /\ ~changed
    /\ Cardinality(reqs) = 2
    /\ Cardinality(both) = MaxKeys
    /\ dropped = {}

(***************************************************************************)
(* Claims about fetch, continued.                                          *)
(***************************************************************************)
\* C14: no read is sent for a key built from a plan whose number of map
\* keys differs from the arity declared for the entry: a call of fetch or
\* fetch_or_default that is awaiting the transport was given an entry whose
\* plan has the declared number of map keys.
C14_ArityMismatchRejected ==
    (f_op \in {"fetch", "fetch_or_default"} /\ f_reads > 0) =>
        arity(f_entry[1].plan) = declared_arity(f_entry[1])

\* C19: fetch_or_default turns to the metadata default only when the read
\* returned no bytes.  When the read failed the call returns the transport
\* error, when it returned bytes that do not decode the call returns the
\* decode error, and in both cases (as when the bytes decode) the metadata
\* has not been read.
C19_DefaultOnlyWhenAbsent ==
    (f_op = "fetch_or_default" /\ f_pc = "idle") =>
        /\ ~f_seen.ok => (f_ret.tag = "transport_err" /\ ~f_meta_used)
        /\ (f_seen.ok /\ f_seen.data # None) =>
             LET d == Decode(f_seen.data[1])
             IN  /\ ~f_meta_used
                 /\ f_ret = IF d.ok THEN FRet("value", d.val)
                            ELSE FRet("decode_err", 0)
        /\ f_meta_used <=> (f_seen.ok /\ f_seen.data = None)

\* C19's case: the node holds bytes that do not decode, the call has
\* returned the decode error, although the metadata holds a default
C19_Witness ==
    /\ f_op = "fetch_or_default" /\ f_pc = "idle"
    /\ f_seen.ok /\ f_seen.data # None
    /\ ~Decode(f_seen.data[1]).ok
    /\ f_ret.tag = "decode_err"
    /\ metadata_default(meta).tag = "value"

====
